---- MODULE Spec2Model ----
(***************************************************************************)
(* A model of primitive_db: the record engine (core.py), the select cache  *)
(* (decorators.py) and the command handlers (engine.py).                   *)
(*                                                                         *)
(* Python strings are sequences of one-character strings, so that strip,   *)
(* lower, upper, partition, split and int() are computed, not assumed.     *)
(* Python values are tagged records, so that the equality the code uses    *)
(* (==, where True == 1 and None == None) is computed too.                 *)
(***************************************************************************)
EXTENDS Integers, Sequences, FiniteSets, TLC

(***************************************************************************)
(* Bounds of the model.                                                    *)
(***************************************************************************)
\* the largest number of records a table's row collection grows to, and the
\* largest ID insert assigns
MaxRows == 2
MaxId == 3
\* the same two, one number, in the sessions that need few rows
MaxFew == 1

(***************************************************************************)
(* Python str methods.                                                     *)
(***************************************************************************)
UpperLetters == <<"A","B","C","D","E","F","G","H","I","J","K","L","M",
                  "N","O","P","Q","R","S","T","U","V","W","X","Y","Z">>
LowerLetters == <<"a","b","c","d","e","f","g","h","i","j","k","l","m",
                  "n","o","p","q","r","s","t","u","v","w","x","y","z">>
Digits == <<"0","1","2","3","4","5","6","7","8","9">>
Whitespace == {" ", "\t"}

\* the letter maps of str.lower() and str.upper()
ToLower == [c \in {UpperLetters[i] : i \in 1..26} |->
               LowerLetters[CHOOSE i \in 1..26 : UpperLetters[i] = c]]
ToUpper == [c \in {LowerLetters[i] : i \in 1..26} |->
               UpperLetters[CHOOSE i \in 1..26 : LowerLetters[i] = c]]

LowerChar(c) == IF c \in DOMAIN ToLower THEN ToLower[c] ELSE c

UpperChar(c) == IF c \in DOMAIN ToUpper THEN ToUpper[c] ELSE c

\* str.lower()
Lower(s) == [i \in 1..Len(s) |-> LowerChar(s[i])]

\* str.upper()
Upper(s) == [i \in 1..Len(s) |-> UpperChar(s[i])]

\* str.lstrip(chars)
LStripChars(s, chars) ==
    LET keep == {i \in 1..Len(s) : s[i] \notin chars}
    IN  IF keep = {} THEN << >>
        ELSE SubSeq(s, CHOOSE i \in keep : \A j \in keep : i <= j, Len(s))

\* str.rstrip(chars)
RStripChars(s, chars) ==
    LET keep == {i \in 1..Len(s) : s[i] \notin chars}
    IN  IF keep = {} THEN << >>
        ELSE SubSeq(s, 1, CHOOSE i \in keep : \A j \in keep : j <= i)

\* str.strip(chars)
StripChars(s, chars) == RStripChars(LStripChars(s, chars), chars)

\* str.strip()
Strip(s) == StripChars(s, Whitespace)

\* the index of the first occurrence of character c in s, 0 when there is none
FindChar(s, c) ==
    LET hits == {i \in 1..Len(s) : s[i] = c}
    IN  IF hits = {} THEN 0 ELSE CHOOSE i \in hits : \A j \in hits : i <= j

\* str.partition(":"): the text before the first colon and the text after it
Partition(s) ==
    LET at == FindChar(s, ":")
    IN  IF at = 0
        THEN [head |-> s, tail |-> << >>]
        ELSE [head |-> SubSeq(s, 1, at - 1), tail |-> SubSeq(s, at + 1, Len(s))]

\* str.split(':')
RECURSIVE Split(_)
Split(s) ==
    LET at == FindChar(s, ":")
    IN  IF at = 0 THEN <<s>>
        ELSE <<SubSeq(s, 1, at - 1)>> \o Split(SubSeq(s, at + 1, Len(s)))

DigitMap == [c \in {Digits[i] : i \in 1..10} |-> (CHOOSE i \in 1..10 : Digits[i] = c) - 1]

DigitValue(c) == DigitMap[c]

IsDigit(c) == c \in DOMAIN DigitMap

RECURSIVE DigitsValue(_)
DigitsValue(s) ==
    IF s = << >> THEN 0
    ELSE 10 * DigitsValue(SubSeq(s, 1, Len(s) - 1)) + DigitValue(s[Len(s)])

\* whether int(s) accepts s: surrounding whitespace, an optional sign, digits
\* (digit-group underscores and non-ASCII digits are outside the alphabet used)
IsIntLiteral(s) ==
    LET t == Strip(s)
        body == IF t # << >> /\ t[1] \in {"+", "-"} THEN Tail(t) ELSE t
    IN  body # << >> /\ \A i \in 1..Len(body) : IsDigit(body[i])

\* int(s) for an accepted s
IntOf(s) ==
    LET t == Strip(s)
    IN  IF t[1] = "-" THEN 0 - DigitsValue(Tail(t))
        ELSE IF t[1] = "+" THEN DigitsValue(Tail(t))
        ELSE DigitsValue(t)

(***************************************************************************)
(* Python values: int, str, bool and None.                                 *)
(***************************************************************************)
IntV(n) == [k |-> "int", n |-> n, s |-> << >>]
StrV(s) == [k |-> "str", n |-> 0, s |-> s]
BoolV(b) == [k |-> "bool", n |-> IF b THEN 1 ELSE 0, s |-> << >>]
NoneV == [k |-> "none", n |-> 0, s |-> << >>]

IsNumeric(v) == v.k \in {"int", "bool"}

\* Python's ==: bool is a subclass of int (True == 1, False == 0)
PyEq(a, b) ==
    IF IsNumeric(a) /\ IsNumeric(b) THEN a.n = b.n
    ELSE a.k = b.k /\ a.s = b.s

(***************************************************************************)
(* Results of a call: the value returned, or the exception raised.         *)
(***************************************************************************)
\* why: which raise statement of the function it was
Return(v) == [exc |-> "none", why |-> "", val |-> v]
Raise(e, why) == [exc |-> e, why |-> why, val |-> NoneV]

\* decorators.handle_db_errors: every exception is printed and None returned
IsNone(res) == res.exc # "none"

(***************************************************************************)
(* String literals of the source.                                          *)
(***************************************************************************)
S_ID == <<"I","D">>
S_int == <<"i","n","t">>
S_str == <<"s","t","r">>
S_bool == <<"b","o","o","l">>
S_true == <<"t","r","u","e">>
S_false == <<"f","a","l","s","e">>
S_IDint == <<"I","D",":","i","n","t">>

\* constants.VALID_TYPES
VALID_TYPES == {S_int, S_str, S_bool}

(***************************************************************************)
(* core.type_casting                                                       *)
(***************************************************************************)
type_casting(column_type, value) ==
    CASE column_type = S_str -> Return(StrV(value))
      [] column_type = S_int ->
            IF IsIntLiteral(value) THEN Return(IntV(IntOf(value)))
            ELSE Raise("ValueError", "invalid_int")
      [] column_type = S_bool ->
            IF Lower(Strip(value)) = S_true THEN Return(BoolV(TRUE))
            ELSE IF Lower(Strip(value)) = S_false THEN Return(BoolV(FALSE))
            ELSE Return(NoneV)
      [] OTHER -> Raise("ValueError", "unsupported_type")

(***************************************************************************)
(* Dictionaries are functions; a row collection is a sequence of records.  *)
(***************************************************************************)
EmptyDict == [x \in {} |-> NoneV]

\* d[key] = value
DictSet(d, key, value) ==
    [x \in DOMAIN d \cup {key} |-> IF x = key THEN value ELSE d[x]]

\* d.pop(key)
DictPop(d, key) == [x \in DOMAIN d \ {key} |-> d[x]]

\* d.copy(); d.update(other)
DictUpdate(d, other) ==
    [x \in DOMAIN d \cup DOMAIN other |-> IF x \in DOMAIN other THEN other[x] ELSE d[x]]

\* record.get(key): None when the key is absent
Get(record, key) == IF key \in DOMAIN record THEN record[key] ELSE NoneV

\* all(record.get(key) == value for key, value in where_clause.items())
matches(record, where_clause) ==
    \A key \in DOMAIN where_clause : PyEq(Get(record, key), where_clause[key])

\* an optional where_clause: None, or a dictionary
NoClause == << >>
Clause(d) == <<d>>

(***************************************************************************)
(* decorators.confirm_action: the answer to the prompt, or an interrupt    *)
(***************************************************************************)
S_y == <<"y">>
S_yes == <<"y","e","s">>
\* "да": the two Cyrillic letters, written by their code points
S_da == <<"U+0434","U+0430">>
NonPrintable == {"\t"}

\* the prompt was interrupted (UnicodeDecodeError, EOFError, KeyboardInterrupt)
Interrupted == <<"EOF">>

confirmed(response) ==
    LET is_printable(c) == c \notin NonPrintable
        cleaned_response == SelectSeq(Lower(Strip(response)), is_printable)
    IN  response # Interrupted /\ cleaned_response \in {S_y, S_yes, S_da}

\* the decorated function returns None without calling the function it wraps
Cancelled == [exc |-> "cancelled", why |-> "cancelled", val |-> NoneV]

\* a slip the decorators could make: confirm_action under handle_db_errors'
\* function, so the prompt comes after the wrapped function's checks
confirm_action_after_the_checks(response, result) ==
    IF result.exc # "none" THEN result
    ELSE IF confirmed(response) THEN result ELSE Cancelled

confirm_action(response, result) ==
    IF confirmed(response) THEN result ELSE Cancelled

(***************************************************************************)
(* core.create_table                                                       *)
(***************************************************************************)
\* the loop over columns and the insertion of the ID column: the column list
\* of the table, or the error the loop raises
table_columns(columns) ==
    LET name(i) == Partition(columns[i]).head
        type_name(i) == Partition(columns[i]).tail
        bad == {i \in 1..Len(columns) :
                    type_name(i) = << >> \/ type_name(i) \notin VALID_TYPES}
        first_bad == CHOOSE i \in bad : \A j \in bad : i <= j
        ids == {i \in 1..Len(columns) : Upper(name(i)) = S_ID}
        is_other(column) == Upper(Partition(column).head) # S_ID
        id_column == columns[CHOOSE i \in ids : \A j \in ids : j <= i]
        normalized == SelectSeq(columns, is_other)
    IN  IF bad # {}
        THEN IF type_name(first_bad) = << >>
             THEN Raise("ValueError", "missing_type")
             ELSE Raise("ValueError", "unsupported_type")
        ELSE IF ids # {}
             THEN Return(<<id_column>> \o normalized)
             ELSE Return(<<S_IDint>> \o normalized)

\* a slip create_table could make: no look at the tables that exist
create_table_replacing(metadata, table_name, columns) ==
    LET normalized == table_columns(columns)
    IN  IF normalized.exc # "none" THEN normalized
        ELSE Return(DictSet(metadata, table_name, normalized.val))

create_table(metadata, table_name, columns) ==
    IF table_name \in DOMAIN metadata THEN Raise("ValueError", "already_exists")
    ELSE
    LET normalized == table_columns(columns)
    IN  IF normalized.exc # "none" THEN normalized
        ELSE Return(DictSet(metadata, table_name, normalized.val))

(***************************************************************************)
(* core.drop_table; response: the answer to its confirmation prompt        *)
(***************************************************************************)
\* a slip drop_table could make: pop with a default, so an absent table is no
\* error
drop_table_ignoring_absence(metadata, table_name, response) ==
    confirm_action(response, Return(DictPop(metadata, table_name)))

drop_table(metadata, table_name, response) ==
    confirm_action(response,
        IF table_name \notin DOMAIN metadata THEN Raise("ValueError", "not_found")
        ELSE Return(DictPop(metadata, table_name)))

(***************************************************************************)
(* core.insert                                                             *)
(***************************************************************************)
\* the dictionary `columns` built from columns_list, as its items in order: a
\* repeated column name keeps its first position and takes its last type
RECURSIVE columns_items(_)
columns_items(columns_list) ==
    IF columns_list = << >> THEN << >>
    ELSE LET before == columns_items(SubSeq(columns_list, 1, Len(columns_list) - 1))
             column_split == Split(columns_list[Len(columns_list)])
             item == [name |-> column_split[1], type |-> column_split[2]]
         IN  IF \E i \in 1..Len(before) : before[i].name = item.name
             THEN [i \in 1..Len(before) |->
                      IF before[i].name = item.name THEN item ELSE before[i]]
             ELSE Append(before, item)

\* a slip the blank test could make: only `value is None`, which no text is
IsBlank_only_none(value) == FALSE

\* value is None or value.strip() == ''
IsBlank(value) == Strip(value) = << >>

\* the IDs the records carry, and the ID generated from them
record_ids(table_data) ==
    LET has_id(record) == S_ID \in DOMAIN record
        with_id == SelectSeq(table_data, has_id)
    IN  [i \in 1..Len(with_id) |-> with_id[i][S_ID]]

Min(a, b) == IF a <= b THEN a ELSE b

\* an optional list argument: None, or a list
NoList == << >>
List(rows) == <<rows>>

\* a slip new_id could make: "the ID of the last record, plus one"
new_id_of_last_record(table_data) ==
    IF table_data = NoList \/ Len(table_data[1]) = 0 THEN Return(IntV(1))
    ELSE LET ids == record_ids(table_data[1])
         IN  IF Len(ids) = 0 THEN Return(IntV(1))
             ELSE IF IsNumeric(ids[Len(ids)]) THEN Return(IntV(ids[Len(ids)].n + 1))
             ELSE Raise("TypeError", "id_not_a_number")

\* another slip: "the smallest ID no record carries"
new_id_first_free(table_data) ==
    IF table_data = NoList \/ Len(table_data[1]) = 0 THEN Return(IntV(1))
    ELSE LET ids == record_ids(table_data[1])
             used == {ids[i].n : i \in 1..Len(ids)}
         IN  IF \A i \in 1..Len(ids) : IsNumeric(ids[i])
             THEN Return(IntV(CHOOSE m \in 1..(Len(ids) + 1) :
                                 m \notin used /\ \A k \in 1..(m - 1) : k \in used))
             ELSE Raise("TypeError", "id_not_a_number")

\* max(ids) + 1: a TypeError unless every ID is a number (an int or a bool)
new_id(table_data) ==
    IF table_data = NoList \/ Len(table_data[1]) = 0 THEN Return(IntV(1))
    ELSE
    LET ids == record_ids(table_data[1])
    IN  IF Len(ids) = 0 THEN Return(IntV(1))
        ELSE IF \A i \in 1..Len(ids) : IsNumeric(ids[i])
        THEN Return(IntV(1 + (CHOOSE m \in {ids[i].n : i \in 1..Len(ids)} :
                                  \A i \in 1..Len(ids) : ids[i].n <= m)))
        ELSE Raise("TypeError", "id_not_a_number")

\* the result of insert, and `arg`: the caller's table_data (None, or its list
\* object) after the call: table_data.append works on the list the caller passed
insert(metadata, table_name, values, table_data) ==
    IF table_name \notin DOMAIN metadata
    THEN Raise("ValueError", "not_found") @@ [arg |-> table_data]
    ELSE
    LET columns_list == metadata[table_name]
        columns == columns_items(columns_list)
        expected_count == Len(columns_list) - 1
        id == new_id(table_data)
        others == Tail(columns)
        n == Min(Len(others), Len(values))
        cast(i) == type_casting(others[i].type, values[i])
        record == [x \in {S_ID} \cup {others[i].name : i \in 1..n} |->
                      IF \E i \in 1..n : others[i].name = x
                      THEN cast(CHOOSE i \in 1..n : others[i].name = x).val
                      ELSE id.val]
    IN  IF Len(values) # expected_count
        THEN Raise("ValueError", "value_count") @@ [arg |-> table_data]
        ELSE IF \E i \in 1..Len(values) : IsBlank(values[i])
        THEN Raise("ValueError", "empty_field") @@ [arg |-> table_data]
        ELSE IF id.exc # "none"
        THEN id @@ [arg |-> table_data]
        ELSE IF \E i \in 1..n : cast(i).exc # "none"
        THEN Raise("ValueError", "invalid_value") @@ [arg |-> table_data]
        ELSE IF table_data = NoList
        THEN Return(<<record>>) @@ [arg |-> NoList]
        ELSE Return(Append(table_data[1], record))
                @@ [arg |-> List(Append(table_data[1], record))]

(***************************************************************************)
(* core.select, core.update, core.delete                                   *)
(***************************************************************************)
select(table_data, where_clause) ==
    IF where_clause = NoClause THEN Return(table_data)
    ELSE LET hit(record) == matches(record, where_clause[1])
         IN  Return(SelectSeq(table_data, hit))

\* a slip update could make: the record is appended, not the updated copy
update_appending_record(table_data, set_clause, where_clause) == Return(table_data)

update(table_data, set_clause, where_clause) ==
    IF table_data = << >> THEN Return(<< >>)
    ELSE Return([i \in 1..Len(table_data) |->
                    IF matches(table_data[i], where_clause)
                    THEN DictUpdate(table_data[i], set_clause)
                    ELSE table_data[i]])

\* response: the answer to the confirmation prompt
delete(table_data, where_clause, response) ==
    confirm_action(response,
        IF table_data = << >> THEN Return(<< >>)
        ELSE LET keep(record) == ~matches(record, where_clause)
             IN  Return(SelectSeq(table_data, keep)))

(***************************************************************************)
(* decorators.create_cacher: the cache, a dictionary from keys to results  *)
(***************************************************************************)
\* f"{table_name}:{where_clause}": the text of the table name, a colon and the
\* repr of None or of the dictionary.  repr tells an int from a bool from a
\* str from None, as the tagged values do.
cache_key(table_name, where_clause) == [table |-> table_name, where |-> where_clause]

\* cache_result(key, value_func): the value returned and the cache afterwards
cache_result(cache, key, value) ==
    IF key \in DOMAIN cache
    THEN [result |-> cache[key], cache |-> cache]
    ELSE [result |-> value, cache |-> DictSet(cache, key, value)]

\* a slip clear could make: the entries stay
clear_cache_keeping(cache) == cache

\* cache_result.clear()
clear_cache(cache) == EmptyDict

(***************************************************************************)
(* engine.parse_where_clause and engine.parse_set_clause                   *)
(***************************************************************************)
T_where == <<"w","h","e","r","e">>
T_set == <<"s","e","t">>
T_eq == <<"=">>

\* parts[i], with the source's indices (from 0)
At(parts, i) == parts[i + 1]

\* column_types: the dictionary from column name to type (a repeated name
\* takes its last type)
column_types(columns_list) ==
    LET names == {Partition(columns_list[i]).head : i \in 1..Len(columns_list)}
        last_of(name) == CHOOSE i \in 1..Len(columns_list) :
                            /\ Partition(columns_list[i]).head = name
                            /\ \A j \in 1..Len(columns_list) :
                                  Partition(columns_list[j]).head = name => j <= i
    IN  [name \in names |-> Partition(columns_list[last_of(name)]).tail]

\* the part both parsers share, from `column_name = parts[start_idx + 1]` on
parse_column_value(parts, start_idx, metadata, table_name) ==
    LET column_name == At(parts, start_idx + 1)
        column_value_str == At(parts, start_idx + 3)
        types == column_types(metadata[table_name])
        typed_value == type_casting(types[column_name], column_value_str)
    IN  IF table_name \notin DOMAIN metadata THEN Raise("ValueError", "not_found")
        ELSE IF column_name \notin DOMAIN types THEN Raise("ValueError", "unknown_column")
        ELSE IF typed_value.exc # "none" THEN typed_value
        ELSE Return(Clause(DictSet(EmptyDict, column_name, typed_value.val)))

\* returns None (NoClause), or the dictionary (Clause), or raises
parse_where_clause(parts, start_idx, metadata, table_name) ==
    IF start_idx >= Len(parts) \/ Lower(At(parts, start_idx)) # T_where
    THEN Return(NoClause)
    ELSE IF Len(parts) < start_idx + 4 THEN Raise("ValueError", "where_syntax")
    ELSE IF At(parts, start_idx + 2) # T_eq THEN Raise("ValueError", "where_syntax")
    ELSE parse_column_value(parts, start_idx, metadata, table_name)

\* a slip parse_set_clause could make: no search for the where that ends the
\* set clause
parse_set_clause_to_the_end(parts, start_idx, metadata, table_name) ==
    IF start_idx >= Len(parts) \/ Lower(At(parts, start_idx)) # T_set
    THEN Raise("ValueError", "set_syntax")
    ELSE IF Len(parts) < start_idx + 4 THEN Raise("ValueError", "set_syntax")
    ELSE IF At(parts, start_idx + 2) # T_eq THEN Raise("ValueError", "set_syntax")
    ELSE parse_column_value(parts, start_idx, metadata, table_name)

parse_set_clause(parts, start_idx, metadata, table_name) ==
    IF start_idx >= Len(parts) \/ Lower(At(parts, start_idx)) # T_set
    THEN Raise("ValueError", "set_syntax")
    ELSE
    LET wheres == {i \in (start_idx + 1)..(Len(parts) - 1) : Lower(At(parts, i)) = T_where}
        where_idx == CHOOSE i \in wheres : \A j \in wheres : i <= j
    IN  IF wheres = {} THEN Raise("ValueError", "missing_where")
        ELSE IF where_idx - start_idx < 4 THEN Raise("ValueError", "set_syntax")
        ELSE IF At(parts, start_idx + 2) # T_eq THEN Raise("ValueError", "set_syntax")
        ELSE parse_column_value(parts, start_idx, metadata, table_name)

(***************************************************************************)
(* The session: engine.run and the handlers of engine.process_command.     *)
(***************************************************************************)
VARIABLES
    metadata,   \* the metadata file: table name -> list of "name:type" columns
    data,       \* the files of the data directory: table name -> row collection
    cache,      \* the dictionary of _select_cache
    pc,         \* "prompt": run() waits for a command; "exited"; "crashed"
    last,       \* the command processed last: its parts, what the handler
                \* passed to the core function it called, and what that returned
    retired     \* history: the <<table, ID>> of the records delete has removed

vars == <<metadata, data, cache, pc, last, retired>>

T_create_table == <<"c","r","e","a","t","e","_","t","a","b","l","e">>
T_list_tables == <<"l","i","s","t","_","t","a","b","l","e","s">>
T_drop_table == <<"d","r","o","p","_","t","a","b","l","e">>
T_insert == <<"i","n","s","e","r","t">>
T_select == <<"s","e","l","e","c","t">>
T_update == <<"u","p","d","a","t","e">>
T_delete == <<"d","e","l","e","t","e">>
T_into == <<"i","n","t","o">>
T_values == <<"v","a","l","u","e","s">>
T_from == <<"f","r","o","m">>
T_help == <<"h","e","l","p">>
T_qmark == <<"?">>
T_exit == <<"e","x","i","t">>
T_quit == <<"q","u","i","t">>

\* utils.load_table_data, and the handlers' conversion of what it returns to a
\* list: a table without a file has no rows
load_table_data(table_name) ==
    IF table_name \in DOMAIN data THEN data[table_name] ELSE << >>

\* utils.save_table_data
save_table_data(table_name, rows) == DictSet(data, table_name, rows)

\* what `last` holds for a command whose handler calls no core function
NoCall(parts) ==
    [parts |-> parts, call |-> "none", metadata |-> metadata, table_data |-> << >>,
     response |-> << >>, where |-> NoClause, set |-> NoClause, hit |-> FALSE,
     result |-> Return(NoneV)]

\* the IDs (numbers) of the records of `before` that `after` no longer holds
removed_ids(table_name, before, after) ==
    {<<table_name, before[i][S_ID].n>> : i \in
        {j \in 1..Len(before) :
            /\ S_ID \in DOMAIN before[j] /\ IsNumeric(before[j][S_ID])
            /\ \A k \in 1..Len(after) : after[k] # before[j]}}

Init ==
    /\ metadata = EmptyDict
    /\ data = EmptyDict
    /\ cache = EmptyDict
    /\ pc = "prompt"
    /\ last = [parts |-> << >>, call |-> "none", metadata |-> EmptyDict,
               table_data |-> << >>, response |-> << >>, where |-> NoClause,
               set |-> NoClause, hit |-> FALSE, result |-> Return(NoneV)]
    /\ retired = {}

\* a handler that prints a message and returns (metadata, True)
ReturnToPrompt(parts) ==
    /\ last' = NoCall(parts)
    /\ UNCHANGED <<metadata, data, cache, pc, retired>>

handle_create_table(parts) ==
    IF Len(parts) < 3 THEN ReturnToPrompt(parts)
    ELSE
    LET table_name == At(parts, 1)
        columns == SubSeq(parts, 3, Len(parts))
        updated == create_table(metadata, table_name, columns)
    IN  /\ last' = [NoCall(parts) EXCEPT !.call = "create_table", !.result = updated]
        /\ metadata' = IF IsNone(updated) THEN metadata ELSE updated.val
        /\ UNCHANGED <<data, cache, pc, retired>>

handle_list_tables(parts) == ReturnToPrompt(parts)

handle_drop_table(parts, response) ==
    IF Len(parts) < 2 THEN ReturnToPrompt(parts)
    ELSE
    LET table_name == At(parts, 1)
        updated == drop_table(metadata, table_name, response)
    IN  /\ last' = [NoCall(parts) EXCEPT !.call = "drop_table", !.result = updated,
                                         !.response = response]
        /\ metadata' = IF IsNone(updated) THEN metadata ELSE updated.val
        /\ cache' = IF IsNone(updated) THEN cache ELSE clear_cache(cache)
        /\ UNCHANGED <<data, pc, retired>>

\* value.strip().lstrip('(').rstrip(')').strip(',').strip()
clean_value(value) ==
    Strip(StripChars(RStripChars(LStripChars(Strip(value), {"("}), {")"}), {","}))

handle_insert(parts) ==
    IF Len(parts) < 4 THEN ReturnToPrompt(parts)
    ELSE IF At(parts, 1) # T_into \/ At(parts, 3) # T_values
    THEN \* raise ValueError: nothing between here and run() catches it
         /\ pc' = "crashed"
         /\ last' = [NoCall(parts) EXCEPT !.result = Raise("ValueError", "insert_syntax")]
         /\ UNCHANGED <<metadata, data, cache, retired>>
    ELSE
    LET table_name == At(parts, 2)
        values == SubSeq(parts, 5, Len(parts))
        cleaned_values == [i \in 1..Len(values) |-> clean_value(values[i])]
        table_data == load_table_data(table_name)
        updated_table_data == insert(metadata, table_name, cleaned_values, List(table_data))
    IN  /\ last' = [NoCall(parts) EXCEPT !.call = "insert", !.table_data = table_data,
                                         !.result = updated_table_data]
        /\ data' = IF IsNone(updated_table_data) THEN data
                   ELSE save_table_data(table_name, updated_table_data.val)
        /\ cache' = IF IsNone(updated_table_data) THEN cache ELSE clear_cache(cache)
        /\ UNCHANGED <<metadata, pc, retired>>

handle_select(parts) ==
    IF Len(parts) < 3 THEN ReturnToPrompt(parts)
    ELSE IF At(parts, 1) # T_from THEN ReturnToPrompt(parts)
    ELSE IF At(parts, 2) \notin DOMAIN metadata THEN ReturnToPrompt(parts)
    ELSE
    LET table_name == At(parts, 2)
        table_data == load_table_data(table_name)
        parsed == IF Len(parts) > 3
                  THEN parse_where_clause(parts, 3, metadata, table_name)
                  ELSE Return(NoClause)
        where_clause == parsed.val
        key == cache_key(table_name, where_clause)
        got == cache_result(cache, key, select(table_data, where_clause))
    IN  IF parsed.exc # "none"
        THEN /\ last' = [NoCall(parts) EXCEPT !.table_data = table_data, !.result = parsed]
             /\ UNCHANGED <<metadata, data, cache, pc, retired>>
        ELSE /\ last' = [NoCall(parts) EXCEPT !.call = "select", !.table_data = table_data,
                                              !.where = where_clause,
                                              !.hit = (key \in DOMAIN cache),
                                              !.result = got.result]
             /\ cache' = got.cache
             /\ UNCHANGED <<metadata, data, pc, retired>>

\* the index of the last part that is the keyword (in any letter case), -1 when none
\* (None in the source)
keyword_idx(parts, keyword) ==
    LET hits == {i \in 0..(Len(parts) - 1) : Lower(At(parts, i)) = keyword}
    IN  IF hits = {} THEN -1 ELSE CHOOSE i \in hits : \A j \in hits : j <= i

handle_update(parts) ==
    IF Len(parts) < 6 THEN ReturnToPrompt(parts)
    ELSE IF At(parts, 1) \notin DOMAIN metadata THEN ReturnToPrompt(parts)
    ELSE IF keyword_idx(parts, T_set) = -1 \/ keyword_idx(parts, T_where) = -1
    THEN ReturnToPrompt(parts)
    ELSE
    LET table_name == At(parts, 1)
        table_data == load_table_data(table_name)
        set_clause == parse_set_clause(parts, keyword_idx(parts, T_set), metadata, table_name)
        where_clause == parse_where_clause(parts, keyword_idx(parts, T_where),
                                           metadata, table_name)
        updated_data == update(table_data, set_clause.val[1], where_clause.val[1])
    IN  IF set_clause.exc # "none"
        THEN /\ last' = [NoCall(parts) EXCEPT !.table_data = table_data, !.result = set_clause]
             /\ UNCHANGED <<metadata, data, cache, pc, retired>>
        ELSE IF where_clause.exc # "none" \/ where_clause.val = NoClause
        THEN /\ last' = [NoCall(parts) EXCEPT !.table_data = table_data,
                                              !.result = where_clause]
             /\ UNCHANGED <<metadata, data, cache, pc, retired>>
        ELSE /\ last' = [NoCall(parts) EXCEPT !.call = "update", !.table_data = table_data,
                                              !.set = set_clause.val,
                                              !.where = where_clause.val,
                                              !.result = updated_data]
             /\ data' = IF IsNone(updated_data) THEN data
                        ELSE save_table_data(table_name, updated_data.val)
             /\ cache' = IF IsNone(updated_data) THEN cache ELSE clear_cache(cache)
             /\ UNCHANGED <<metadata, pc, retired>>

handle_delete(parts, response) ==
    IF Len(parts) < 6 THEN ReturnToPrompt(parts)
    ELSE IF At(parts, 1) # T_from THEN ReturnToPrompt(parts)
    ELSE IF At(parts, 2) \notin DOMAIN metadata THEN ReturnToPrompt(parts)
    ELSE IF Lower(At(parts, 3)) # T_where THEN ReturnToPrompt(parts)
    ELSE
    LET table_name == At(parts, 2)
        table_data == load_table_data(table_name)
        where_clause == parse_where_clause(parts, 3, metadata, table_name)
        updated_data == delete(table_data, where_clause.val[1], response)
    IN  IF where_clause.exc # "none" \/ where_clause.val = NoClause
        THEN /\ last' = [NoCall(parts) EXCEPT !.table_data = table_data,
                                              !.result = where_clause]
             /\ UNCHANGED <<metadata, data, cache, pc, retired>>
        ELSE /\ last' = [NoCall(parts) EXCEPT !.call = "delete", !.table_data = table_data,
                                              !.where = where_clause.val,
                                              !.response = response,
                                              !.result = updated_data]
             /\ data' = IF IsNone(updated_data) THEN data
                        ELSE save_table_data(table_name, updated_data.val)
             /\ cache' = IF IsNone(updated_data) THEN cache ELSE clear_cache(cache)
             /\ retired' = IF IsNone(updated_data) THEN retired
                           ELSE retired \cup removed_ids(table_name, table_data,
                                                         updated_data.val)
             /\ UNCHANGED <<metadata, pc>>

\* help, ?, and the commands process_command does not know
handle_other(parts) == ReturnToPrompt(parts)

\* exit, quit: process_command returns (metadata, False) and run() leaves its loop
handle_exit(parts) ==
    /\ pc' = "exited"
    /\ last' = NoCall(parts)
    /\ UNCHANGED <<metadata, data, cache, retired>>

(***************************************************************************)
(* engine.process_command, one action for each handler it dispatches to.   *)
(* lines: the command lines the user may type, as shlex.split leaves them. *)
(***************************************************************************)
\* the answers to a confirmation prompt
Answers == {S_y, <<" ","Y","E","S","\t">>, S_da, <<"n">>, << >>, Interrupted}

\* cmd = parts[0].lower()
cmd(parts) == Lower(At(parts, 0))

\* the model's bounds: a table holds at most max_rows records and insert
\* assigns no ID above max_id
WithinBounds(parts, max_rows, max_id) ==
    Len(parts) >= 4 =>
        LET table_data == load_table_data(At(parts, 2))
            id == new_id(List(table_data))
        IN  /\ Len(table_data) < max_rows
            /\ id.exc = "none" => id.val.n <= max_id

CreateTable(lines) ==
    \E parts \in lines :
        pc = "prompt" /\ cmd(parts) = T_create_table /\ handle_create_table(parts)

ListTables(lines) ==
    \E parts \in lines :
        pc = "prompt" /\ cmd(parts) = T_list_tables /\ handle_list_tables(parts)

DropTable(lines) ==
    \E parts \in lines, response \in Answers :
        pc = "prompt" /\ cmd(parts) = T_drop_table /\ handle_drop_table(parts, response)

Insert(lines, max_rows, max_id) ==
    \E parts \in lines :
        /\ pc = "prompt" /\ cmd(parts) = T_insert
        /\ WithinBounds(parts, max_rows, max_id)
        /\ handle_insert(parts)

Select(lines) ==
    \E parts \in lines :
        pc = "prompt" /\ cmd(parts) = T_select /\ handle_select(parts)

Update(lines) ==
    \E parts \in lines :
        pc = "prompt" /\ cmd(parts) = T_update /\ handle_update(parts)

Delete(lines) ==
    \E parts \in lines, response \in Answers :
        pc = "prompt" /\ cmd(parts) = T_delete /\ handle_delete(parts, response)

Other(lines) ==
    \E parts \in lines :
        /\ pc = "prompt"
        /\ cmd(parts) \notin {T_create_table, T_list_tables, T_drop_table, T_insert,
                              T_select, T_update, T_delete, T_exit, T_quit}
        /\ handle_other(parts)

Exit(lines) ==
    \E parts \in lines :
        pc = "prompt" /\ cmd(parts) \in {T_exit, T_quit} /\ handle_exit(parts)

Step(lines, max_rows, max_id) ==
    \/ CreateTable(lines)
    \/ ListTables(lines)
    \/ DropTable(lines)
    \/ Insert(lines, max_rows, max_id)
    \/ Select(lines)
    \/ Update(lines)
    \/ Delete(lines)
    \/ Other(lines)
    \/ Exit(lines)

(***************************************************************************)
(* Words of the command lines.                                             *)
(***************************************************************************)
N_t == <<"t">>
Col_n_int == <<"n",":","i","n","t">>
Col_f_bool == <<"f",":","b","o","o","l">>
Col_n == <<"n">>
C_n == <<"n">>
C_f == <<"f">>
V_0 == <<"0">>
V_1 == <<"1">>
V_2 == <<"2">>
V_2_paren == <<"(","2",")">>
V_x == <<"x">>
V_blank == <<" ">>

\* the lines every session below has: a listing, a help request, an unknown
\* command and an exit
CommonLines == {<<T_list_tables>>, <<T_help>>, <<V_x>>, <<T_exit>>}

(***************************************************************************)
(* Spec: a session that inserts, deletes by ID and rewrites an ID.         *)
(***************************************************************************)
IdLines ==
    CommonLines \cup
    {<<T_create_table, N_t, Col_n_int>>, <<T_create_table, N_t, Col_n>>,
     <<T_drop_table, N_t>>,
     <<T_insert, T_into, N_t, T_values, V_1>>,
     <<T_insert, T_into, N_t, T_values, V_x>>,
     <<T_select, T_from, N_t>>,
     <<T_update, N_t, T_set, S_ID, T_eq, V_1, T_where, S_ID, T_eq, V_2>>,
     <<T_delete, T_from, N_t, T_where, S_ID, T_eq, V_1>>,
     <<T_delete, T_from, N_t, T_where, S_ID, T_eq, V_2>>}

Next == Step(IdLines, MaxRows, MaxId)

Spec == Init /\ [][Next]_vars

(***************************************************************************)
(* SpecCache: a session of selects between the commands that change rows.  *)
(***************************************************************************)
CacheLines ==
    CommonLines \cup
    {<<T_create_table, N_t, Col_n_int>>,
     <<T_drop_table, N_t>>,
     <<T_insert, T_into, N_t, T_values, V_1>>,
     <<T_select, T_from, N_t>>,
     <<T_select, T_from, N_t, T_where, C_n, T_eq, V_1>>,
     <<T_update, N_t, T_set, C_n, T_eq, V_2, T_where, C_n, T_eq, V_1>>,
     <<T_delete, T_from, N_t, T_where, C_n, T_eq, V_1>>}

NextCache == Step(CacheLines, MaxFew, MaxFew)

SpecCache == Init /\ [][NextCache]_vars

(***************************************************************************)
(* SpecTypes: a session with a bool column, values that are not of their   *)
(* column's type, and a table dropped and created again with other columns.*)
(***************************************************************************)
TypeLines ==
    CommonLines \cup
    {<<T_create_table, N_t, Col_n_int>>,
     <<T_create_table, N_t, Col_n_int, Col_f_bool>>,
     <<T_drop_table, N_t>>,
     <<T_insert, T_into, N_t, T_values, V_1>>,
     <<T_insert, T_into, N_t, T_values, V_1, S_true>>,
     <<T_insert, T_into, N_t, T_values, V_1, V_x>>,
     <<T_insert, T_into, N_t, T_values, V_x, S_true>>,
     <<T_select, T_from, N_t, T_where, C_f, T_eq, V_x>>,
     <<T_update, N_t, T_set, C_n, T_eq, V_2, T_where, C_f, T_eq, V_x>>,
     <<T_delete, T_from, N_t, T_where, C_f, T_eq, S_true>>}

NextTypes == Step(TypeLines, MaxFew, MaxFew)

SpecTypes == Init /\ [][NextTypes]_vars

(***************************************************************************)
(* SpecUpdate: a session whose update commands lack the where keyword,     *)
(* have it before set, or leave the where clause unfinished.               *)
(***************************************************************************)
UpdateLines ==
    CommonLines \cup
    {<<T_create_table, N_t, Col_n_int>>,
     <<T_drop_table, N_t>>,
     <<T_insert, T_into, N_t, T_values, V_1>>,
     <<T_select, T_from, N_t>>,
     <<T_delete, T_from, N_t, T_where, C_n, T_eq, V_2>>,
     <<T_update, N_t, T_set, C_n, T_eq, V_2, T_where, C_n, T_eq, V_1>>,
     <<T_update, N_t, T_set, C_n, T_eq, V_2>>,
     <<T_update, N_t, T_set, C_n, T_eq, V_2, V_x, V_x, V_x, V_x>>,
     <<T_update, N_t, T_where, C_n, T_eq, V_1, T_set, C_n, T_eq, V_2>>,
     <<T_update, N_t, T_set, C_n, T_eq, V_2, T_where, C_n, T_eq>>,
     <<T_update, N_t, T_set, C_n, T_eq, V_2, T_where, C_n, V_1, V_1>>}

NextUpdate == Step(UpdateLines, MaxFew, MaxFew)

SpecUpdate == Init /\ [][NextUpdate]_vars

(***************************************************************************)
(* SpecLoop: a session with insert commands that lack `into` or `values`,  *)
(* that name no table, bring too many values or a blank one, and an        *)
(* interrupted prompt (get_input turns it into the line quit).             *)
(***************************************************************************)
LoopLines ==
    CommonLines \cup
    {<<T_quit>>,
     <<T_create_table, N_t, Col_n_int>>,
     <<T_create_table, N_t>>,
     <<T_drop_table, N_t>>,
     <<T_insert, T_into, N_t, T_values, V_1>>,
     <<T_insert, T_into, N_t, T_values, V_x>>,
     <<T_insert, T_into, N_t>>,
     <<T_insert, N_t, T_values, V_1>>,
     <<T_insert, T_into, N_t, V_x, V_1>>,
     <<T_insert, T_into, N_t, T_values, V_1, V_1>>,
     <<T_insert, T_into, N_t, T_values, V_blank>>,
     <<T_insert, T_into, N_t, T_values, V_blank, V_1>>,
     <<T_select, T_from, N_t>>,
     <<T_select, N_t>>,
     <<T_update, N_t, T_set, C_n, T_eq, V_2, T_where, C_n, T_eq, V_1>>,
     <<T_delete, T_from, N_t, T_where, C_n, T_eq, V_1>>,
     <<T_delete, N_t>>}

NextLoop == Step(LoopLines, MaxRows, MaxId)

SpecLoop == Init /\ [][NextLoop]_vars

(***************************************************************************)
(* SpecDrop: a session with two tables, dropped with and without records.  *)
(***************************************************************************)
N_u == <<"u">>

DropLines ==
    CommonLines \cup
    {<<T_create_table, N_t, Col_n_int>>,
     <<T_create_table, N_u, Col_n_int, Col_f_bool>>,
     <<T_drop_table, N_t>>,
     <<T_drop_table, N_u>>,
     <<T_drop_table>>,
     <<T_insert, T_into, N_t, T_values, V_1>>,
     <<T_select, T_from, N_t>>,
     <<T_update, N_t, T_set, C_n, T_eq, V_2, T_where, C_n, T_eq, V_1>>,
     <<T_delete, T_from, N_t, T_where, C_n, T_eq, V_1>>}

NextDrop == Step(DropLines, MaxFew, MaxFew)

SpecDrop == Init /\ [][NextDrop]_vars

(***************************************************************************)
(* Claims about a session, checked under Spec, SpecCache and SpecTypes.    *)
(***************************************************************************)
\* the command processed last has called insert, which returned the rows
Inserted == last.call = "insert" /\ ~IsNone(last.result)

\* the table the insert or delete command processed last names
CommandTable == At(last.parts, 2)

\* the ID of the record the insert processed last appended
InsertedId == last.result.val[Len(last.result.val)][S_ID]

\* the IDs of the table of the insert processed last that delete has removed
RetiredIds == {d \in 1..(MaxId + 1) : <<CommandTable, d>> \in retired}

\* C2 (as stated): insert never assigns an ID that a record deleted earlier
\* had, the highest ID of the table included.
C2_InsertNeverReusesADeletedId ==
    Inserted => InsertedId.n \notin RetiredIds

\* C2 (amended): insert never assigns the ID of a deleted record while a record
\* with that ID or a higher one remains in the table: a gap below the highest
\* remaining ID is never filled.
C2_InsertNeverFillsAGap ==
    Inserted =>
        \A d \in RetiredIds :
            (\E i \in 1..Len(last.table_data) : last.table_data[i][S_ID].n >= d)
                => InsertedId.n # d

\* records 1 and 2 were inserted, record 1 was deleted, and the insert after
\* that has assigned 3
C2_Witness ==
    /\ Inserted
    /\ 1 \in RetiredIds
    /\ Len(last.table_data) = 1 /\ last.table_data[1][S_ID] = IntV(2)
    /\ InsertedId = IntV(3)

\* C3: after any sequence of insert, update and delete commands every record
\* of a table has an ID >= 1 and no two records of the table share an ID.
C3_IdsPositiveAndUnique ==
    \A t \in DOMAIN data :
        /\ \A i \in 1..Len(data[t]) :
              /\ S_ID \in DOMAIN data[t][i]
              /\ data[t][i][S_ID].k = "int" /\ data[t][i][S_ID].n >= 1
        /\ \A i, j \in 1..Len(data[t]) :
              i # j => data[t][i][S_ID] # data[t][j][S_ID]

\* C4: every result select returns, served from the cache or computed, is
\* select applied to the rows persisted now; so is every entry the cache
\* holds, whatever insert, update, delete or drop_table came before.
C4_CacheCoherent ==
    /\ last.call = "select" =>
          last.result = select(load_table_data(CommandTable), last.where)
    /\ \A key \in DOMAIN cache :
          cache[key] = select(load_table_data(key.table), key.where)

\* a select served from the cache, returning a record, in a session in which
\* a record was deleted before
C4_Witness ==
    /\ last.call = "select" /\ last.hit
    /\ last.result.val # << >>
    /\ retired # {}

\* the values of the insert command processed last, as handle_insert cleans
\* them, and the columns they are for
InsertValues == [i \in 1..(Len(last.parts) - 4) |-> clean_value(last.parts[i + 4])]

InsertColumns == Tail(columns_items(last.metadata[CommandTable]))

\* the spec's casts: whether a text is not a value of a column type
CastFails(column_type, value) ==
    \/ column_type = S_int /\ ~IsIntLiteral(value)
    \/ column_type = S_bool /\ Lower(Strip(value)) \notin {S_true, S_false}

\* the command processed last has called insert with as many values as the
\* table has columns besides ID, one of them not a value of its column's type
InsertWithCastFailure ==
    /\ last.call = "insert"
    /\ CommandTable \in DOMAIN last.metadata
    /\ Len(InsertValues) = Len(InsertColumns)
    /\ \A i \in 1..Len(InsertValues) : ~IsBlank(InsertValues[i])
    /\ \E i \in 1..Len(InsertValues) : CastFails(InsertColumns[i].type, InsertValues[i])

\* C5: when the cast of a supplied value fails, insert returns an error and
\* the rows, the caller's and the persisted ones, are what they were.
C5_CastFailureLeavesRowsUnchanged ==
    InsertWithCastFailure =>
        /\ IsNone(last.result)
        /\ last.result.arg = List(last.table_data)
        /\ load_table_data(CommandTable) = last.table_data

\* C7: create_table with the name of a table that exists fails, and the
\* schema store is what it was, the table's column list included.
C7_CreateExistingTableFails ==
    (last.call = "create_table" /\ At(last.parts, 1) \in DOMAIN last.metadata) =>
        /\ last.result = Raise("ValueError", "already_exists")
        /\ metadata = last.metadata

\* create_table t n:int f:bool was refused: t exists, with the columns ID, n
C7_Witness ==
    /\ last.call = "create_table"
    /\ last.parts = <<T_create_table, N_t, Col_n_int, Col_f_bool>>
    /\ N_t \in DOMAIN last.metadata
    /\ metadata[N_t] = <<S_IDint, Col_n_int>>
    /\ last.result.exc = "ValueError"


\* the names of the columns of a table besides ID (the first column)
OtherColumns(columns_list) ==
    {Partition(columns_list[i]).head : i \in 2..Len(columns_list)}

\* C14: after any sequence of create_table, drop_table, insert, update and
\* delete commands every persisted record of a table has a field for every
\* non-ID column of the table's schema, also when the table was dropped and
\* created again with other columns.
C14_NoPartialRows ==
    \A t \in DOMAIN metadata :
        \A i \in 1..Len(load_table_data(t)) :
            OtherColumns(metadata[t]) \subseteq DOMAIN load_table_data(t)[i]

\* whether an update command has no where keyword after a set keyword, or a
\* where clause that is not `where <column> = <value>`
SetWithoutWhere(parts) ==
    LET sets == {i \in 1..Len(parts) : Lower(parts[i]) = T_set}
        wheres == {i \in 1..Len(parts) : Lower(parts[i]) = T_where}
        the_where == CHOOSE i \in wheres : \A j \in wheres : j <= i
    IN  /\ cmd(parts) = T_update
        /\ \/ ~\E i \in sets, j \in wheres : i < j
           \/ Len(parts) < the_where + 3
           \/ parts[the_where + 2] # T_eq

\* C15: an update command without a where keyword after set, or with an
\* incomplete where clause, is rejected: update is not called, no record
\* changes, no row data is written and the cache is not cleared.
C15_SetWithoutWhereIsRejected ==
    [][(last'.parts # << >> /\ SetWithoutWhere(last'.parts)) =>
          /\ last'.call = "none"
          /\ data' = data /\ cache' = cache /\ metadata' = metadata
          /\ pc' = "prompt"]_vars

\* update t where n = 1 set n = 2 was rejected; the record with n = 1 and the
\* cache entry of an earlier select are still there
C15_Witness ==
    /\ last.parts = <<T_update, N_t, T_where, C_n, T_eq, V_1, T_set, C_n, T_eq, V_2>>
    /\ last.call = "none" /\ last.result.exc = "ValueError"
    /\ Len(load_table_data(N_t)) = 1 /\ load_table_data(N_t)[1][C_n] = IntV(1)
    /\ cache # EmptyDict

\* C16: the command loop ends only on an exit or quit command (an interrupt
\* of the prompt is read as quit); every other command line, a malformed one
\* included, returns control to the prompt.
C16_LoopEndsOnlyOnExit ==
    pc # "prompt" => (pc = "exited" /\ cmd(last.parts) \in {T_exit, T_quit})

\* the spec's blank value: empty or whitespace only
Blank(value) == \A i \in 1..Len(value) : value[i] \in Whitespace

\* insert returned the error and appended and persisted nothing
InsertFailed(why) ==
    /\ last.result.exc = "ValueError" /\ last.result.why = why
    /\ last.result.arg = List(last.table_data)
    /\ load_table_data(CommandTable) = last.table_data

\* C17: insert fails with NotFound when the table is not in the schema, else
\* with ValueCountMismatch when the number of values is not the number of
\* columns minus one, else with EmptyField when a value is blank, and then
\* appends and persists no record; it succeeds only when none of these holds.
C17_InsertValidatesInOrder ==
    last.call = "insert" =>
        IF CommandTable \notin DOMAIN last.metadata THEN InsertFailed("not_found")
        ELSE IF Len(InsertValues) # Len(last.metadata[CommandTable]) - 1
        THEN InsertFailed("value_count")
        ELSE IF \E i \in 1..Len(InsertValues) : Blank(InsertValues[i])
        THEN InsertFailed("empty_field")
        ELSE TRUE

\* insert into t values " " 1, for the table t with the one column n and a
\* record in it: the count of values is reported, not the blank one
C17_Witness ==
    /\ last.call = "insert"
    /\ last.parts = <<T_insert, T_into, N_t, T_values, V_blank, V_1>>
    /\ N_t \in DOMAIN last.metadata /\ Len(last.table_data) = 1
    /\ InsertFailed("value_count")

\* what drop_table does once it runs: NotFound and the schema store unchanged
\* for an absent table; for a table that exists, the store without that table
\* and with every other table's columns as they were
DropsTheTable ==
    LET table_name == At(last'.parts, 1)
    IN  IF table_name \notin DOMAIN metadata
        THEN /\ last'.result = Raise("ValueError", "not_found")
             /\ metadata' = metadata
        ELSE /\ last'.result = Return(metadata')
             /\ DOMAIN metadata' = DOMAIN metadata \ {table_name}
             /\ \A other \in DOMAIN metadata' : metadata'[other] = metadata[other]

\* C18: drop_table, called once its confirmation gate is passed, fails with
\* NotFound on an absent table, leaving the schema store unchanged, and
\* otherwise returns the store with exactly that table removed; a drop_table
\* stopped at the gate changes nothing; none changes persisted row data.
C18_ConfirmedDropRemovesExactlyTheTable ==
    [][last'.call = "drop_table" =>
          /\ data' = data
          /\ IF confirmed(last'.response) THEN DropsTheTable
             ELSE last'.result = Cancelled /\ metadata' = metadata]_vars

\* drop_table t, confirmed, with the table u in the schema store and a record
\* of t persisted: t is gone, u is there, the record is still persisted
C18_Witness ==
    /\ last.call = "drop_table" /\ last.parts = <<T_drop_table, N_t>>
    /\ confirmed(last.response)
    /\ N_t \in DOMAIN last.metadata /\ N_t \notin DOMAIN metadata
    /\ N_u \in DOMAIN metadata /\ metadata[N_u] = last.metadata[N_u]
    /\ Len(load_table_data(N_t)) = 1

\* whether a value is of a column type: a string for str, an integer for int,
\* true or false for bool
HasType(value, column_type) ==
    CASE column_type = S_str -> value.k = "str"
      [] column_type = S_int -> value.k = "int"
      [] column_type = S_bool -> value.k = "bool"
      [] OTHER -> FALSE

\* C19: after any sequence of insert and update commands every non-ID field
\* a record holds is a value of its column's declared type, never null.
C19_StoredFieldsHaveTheirColumnsType ==
    \A t \in DOMAIN metadata :
        \A i \in 1..Len(load_table_data(t)), c \in 2..Len(metadata[t]) :
            LET column == Partition(metadata[t][c])
                record == load_table_data(t)[i]
            IN  column.head \in DOMAIN record =>
                    HasType(record[column.head], column.tail)

\* C20: a drop_table or delete whose prompt is answered with anything but y,
\* yes or да, or is interrupted, changes nothing: the schema store, the
\* persisted rows and the cache stay as they were; the prompt comes before the
\* wrapped operation's check of the table or of the rows, so the command is
\* cancelled whatever that check would have said.
C20_DeclinedPromptChangesNothing ==
    [][(last'.call \in {"drop_table", "delete"} /\ ~confirmed(last'.response)) =>
          /\ last'.result = Cancelled
          /\ metadata' = metadata /\ data' = data /\ cache' = cache]_vars

\* delete from t where n = 1, the prompt answered with Enter alone: the
\* record with n = 1 and the cache entry of an earlier select are still there
C20_Witness ==
    /\ last.call = "delete" /\ last.response = << >>
    /\ last.result = Cancelled
    /\ Len(load_table_data(N_t)) = 1 /\ load_table_data(N_t)[1][C_n] = IntV(1)
    /\ cache # EmptyDict

(***************************************************************************)
(* The core functions called directly: Init draws a call (a function of    *)
(* core.py and its arguments) and the action of that function applies it.  *)
(***************************************************************************)
\* the longest row collection and the longest column list drawn
MaxLen == 2
MaxCols == 2

S_float == <<"f","l","o","a","t">>
V_3 == <<"3">>

RawValues ==
    {V_1, <<" ","2"," ">>, <<"-","3">>, <<"+","4">>, <<"1","0">>, V_x, << >>, V_blank,
     <<"1"," ","2">>, <<"-">>,
     S_true, <<"T","R","U","E">>, <<" ","T","r","u","e","\t">>, S_false,
     <<"F","a","l","s","e">>, <<"m","a","y","b","e">>, <<"t","r","u","e","x">>,
     <<"y","e","s">>, V_0}

ColumnSpecs ==
    {Col_n_int, Col_f_bool, <<"s",":","s","t","r">>, S_IDint, <<"i","d",":","s","t","r">>,
     <<"I","d",":","b","o","o","l">>, <<"I","D",":","s","t","r">>, Col_n,
     <<"n",":">>, <<"n",":","f","l","o","a","t">>, <<"n",":","i","n","t",":","x">>}

ColumnLists == UNION {[1..k -> ColumnSpecs] : k \in 1..MaxCols}

\* the schema stores the calls are made with
CoreMetadata ==
    {EmptyDict,
     create_table(EmptyDict, N_t, <<Col_n_int>>).val,
     create_table(EmptyDict, N_t, <<Col_n_int, Col_f_bool>>).val}

\* the records of the row collections: every record has an ID; a record of a
\* table that was dropped and created again lacks the columns added since
CoreRecords ==
    {[x \in {S_ID} |-> id] : id \in {IntV(1), StrV(V_x)}}
    \cup {(S_ID :> IntV(i)) @@ (C_n :> IntV(v)) : i \in {1, 2}, v \in {1, 2}}
    \cup {(S_ID :> IntV(1)) @@ (C_n :> IntV(1)) @@ (C_f :> f) : f \in {BoolV(TRUE), NoneV}}

RowCollections == UNION {[1..k -> CoreRecords] : k \in 0..MaxLen}

\* the dictionaries parse_where_clause and parse_set_clause build hold what
\* type_casting returned; with two keys, what a caller of core.py may pass
CoreClauses ==
    {C_n :> IntV(1), C_n :> IntV(2), C_f :> BoolV(TRUE), C_f :> NoneV,
     S_ID :> IntV(1), S_ID :> BoolV(TRUE),
     (C_n :> IntV(1)) @@ (C_f :> NoneV), (S_ID :> IntV(2)) @@ (C_n :> IntV(2))}

CoreSetClauses ==
    {C_n :> IntV(2), C_f :> BoolV(TRUE), S_ID :> IntV(1), (C_n :> IntV(1)) @@ (C_f :> NoneV)}

CoreValues == {V_1, V_x, S_true}

ValueLists == UNION {[1..k -> CoreValues] : k \in 0..2}

NoResult == Return(NoneV)

\* the calls: a function of core.py and its arguments
CoreCall ==
    \/ \E t \in VALID_TYPES \cup {S_float}, v \in RawValues :
          last = [fn |-> "type_casting", column_type |-> t, value |-> v, result |-> NoResult]
    \/ \E m \in CoreMetadata, c \in ColumnLists :
          last = [fn |-> "create_table", metadata |-> m, table_name |-> N_t, columns |-> c,
                  result |-> NoResult]
    \/ \E m \in CoreMetadata, v \in ValueLists,
          d \in {NoList} \cup {List(rows) : rows \in RowCollections} :
          last = [fn |-> "insert", metadata |-> m, table_name |-> N_t, values |-> v,
                  table_data |-> d, result |-> NoResult]
    \/ \E d \in RowCollections, w \in {NoClause} \cup {Clause(c) : c \in CoreClauses} :
          last = [fn |-> "select", table_data |-> d, where_clause |-> w, result |-> NoResult]
    \/ \E d \in RowCollections, s \in CoreSetClauses, w \in CoreClauses :
          last = [fn |-> "update", table_data |-> d, set_clause |-> s, where_clause |-> w,
                  result |-> NoResult, then |-> NoResult]
    \/ \E d \in RowCollections, w \in CoreClauses, r \in Answers :
          last = [fn |-> "delete", table_data |-> d, where_clause |-> w, response |-> r,
                  result |-> NoResult, then |-> NoResult]

InitCore ==
    /\ CoreCall
    /\ pc = "call"
    /\ metadata = EmptyDict
    /\ data = EmptyDict
    /\ cache = EmptyDict
    /\ retired = {}

Returns(result) ==
    /\ last' = [last EXCEPT !.result = result]
    /\ pc' = "returned"
    /\ UNCHANGED <<metadata, data, cache, retired>>

CallTypeCasting ==
    /\ pc = "call" /\ last.fn = "type_casting"
    /\ Returns(type_casting(last.column_type, last.value))

CallCreateTable ==
    /\ pc = "call" /\ last.fn = "create_table"
    /\ Returns(create_table(last.metadata, last.table_name, last.columns))

CallInsert ==
    /\ pc = "call" /\ last.fn = "insert"
    /\ Returns(insert(last.metadata, last.table_name, last.values, last.table_data))

CallSelect ==
    /\ pc = "call" /\ last.fn = "select"
    /\ Returns(select(last.table_data, last.where_clause))

CallUpdate ==
    /\ pc = "call" /\ last.fn = "update"
    /\ Returns(update(last.table_data, last.set_clause, last.where_clause))

CallDelete ==
    /\ pc = "call" /\ last.fn = "delete"
    /\ Returns(delete(last.table_data, last.where_clause, last.response))

\* the caller goes on with what the call returned
Then(result) ==
    /\ last' = [last EXCEPT !.then = result]
    /\ pc' = "then"
    /\ UNCHANGED <<metadata, data, cache, retired>>

\* select(update(rows, set, where), where)
SelectAfterUpdate ==
    /\ pc = "returned" /\ last.fn = "update" /\ ~IsNone(last.result)
    /\ Then(select(last.result.val, Clause(last.where_clause)))

\* delete(delete(rows, where), where), the prompt answered the same way
DeleteAfterDelete ==
    /\ pc = "returned" /\ last.fn = "delete" /\ ~IsNone(last.result)
    /\ Then(delete(last.result.val, last.where_clause, last.response))

NextCore ==
    \/ CallTypeCasting
    \/ CallCreateTable
    \/ CallInsert
    \/ CallSelect
    \/ CallUpdate
    \/ CallDelete
    \/ SelectAfterUpdate
    \/ DeleteAfterDelete

SpecCore == InitCore /\ [][NextCore]_vars

(***************************************************************************)
(* Claims about the core functions, checked under SpecCore.                *)
(***************************************************************************)
\* the spec's "a record matches a predicate": every key of the predicate is
\* present in the record with an equal value
Matches(record, predicate) ==
    \A key \in DOMAIN predicate :
        key \in DOMAIN record /\ PyEq(record[key], predicate[key])

Returned(fn) == pc = "returned" /\ last.fn = fn

\* the rows insert was called with (none when it was called with None)
ExistingRows == IF last.table_data = NoList THEN << >> ELSE last.table_data[1]

\* the record a successful insert appended
NewRecord == last.result.val[Len(last.result.val)]

\* C1: insert assigns ID 1 when the existing row collection is empty or absent,
\* and the largest existing ID plus one when it is not.
C1_InsertAssignsMaxPlusOne ==
    (Returned("insert") /\ last.result.exc = "none") =>
        /\ NewRecord[S_ID].k = "int"
        /\ IF Len(ExistingRows) = 0
           THEN NewRecord[S_ID].n = 1
           ELSE /\ \A i \in 1..Len(ExistingRows) :
                      ExistingRows[i][S_ID].n < NewRecord[S_ID].n
                /\ \E i \in 1..Len(ExistingRows) :
                      ExistingRows[i][S_ID].n + 1 = NewRecord[S_ID].n

\* insert has assigned 3 to the record added to rows with the IDs 2, 1 (the
\* largest ID is not the last record's)
C1_Witness ==
    /\ Returned("insert") /\ last.result.exc = "none"
    /\ Len(ExistingRows) = 2
    /\ ExistingRows[1][S_ID] = IntV(2) /\ ExistingRows[2][S_ID] = IntV(1)
    /\ NewRecord[S_ID] = IntV(3)

\* whether every column spec has the form name:type with a supported type
ValidColumnList(columns) ==
    \A i \in 1..Len(columns) :
        /\ FindChar(columns[i], ":") # 0
        /\ Partition(columns[i]).tail \in VALID_TYPES

\* C6: for every valid column list create_table yields a schema whose first
\* column is named exactly ID and has the integer type.
C6_FirstColumnIsIDInt ==
    (/\ Returned("create_table")
     /\ ValidColumnList(last.columns)
     /\ last.table_name \notin DOMAIN last.metadata) =>
        /\ last.result.exc = "none"
        /\ last.result.val[last.table_name][1] = S_IDint

\* C8: a cast to bool yields true or false when the trimmed, case-folded input
\* is "true" or "false", and fails with an InvalidValue error for every other
\* input.
C8_BoolCastTrueFalseOrError ==
    (Returned("type_casting") /\ last.column_type = S_bool) =>
        LET folded == Lower(Strip(last.value))
        IN  CASE folded = S_true -> last.result = Return(BoolV(TRUE))
              [] folded = S_false -> last.result = Return(BoolV(FALSE))
              [] OTHER -> last.result.exc = "ValueError"

\* C9: select without a predicate returns all rows in order; with a predicate
\* it returns, in order, exactly the records in which every key of the
\* predicate is present with an equal value.
C9_SelectExactlyTheMatches ==
    Returned("select") =>
        /\ last.result.exc = "none"
        /\ IF last.where_clause = NoClause
           THEN last.result.val = last.table_data
           ELSE LET hit(record) == Matches(record, last.where_clause[1])
                IN  last.result.val = SelectSeq(last.table_data, hit)

\* C10: update returns a collection of the same length and order in which
\* every record matching where is the original overridden by the set fields
\* and every other record is unchanged.
C10_UpdateOverridesTheMatchesOnly ==
    Returned("update") =>
        /\ last.result.exc = "none"
        /\ Len(last.result.val) = Len(last.table_data)
        /\ \A i \in 1..Len(last.table_data) :
              LET before == last.table_data[i]
                  after == last.result.val[i]
              IN  IF Matches(before, last.where_clause)
                  THEN /\ DOMAIN after = DOMAIN before \cup DOMAIN last.set_clause
                       /\ \A key \in DOMAIN last.set_clause : after[key] = last.set_clause[key]
                       /\ \A key \in DOMAIN before \ DOMAIN last.set_clause :
                              after[key] = before[key]
                  ELSE after = before

\* the caller has gone on with the result of fn
Continued(fn) == pc = "then" /\ last.fn = fn

\* the records of rows that match the predicate (the spec's match), in order
Matching(rows, predicate) ==
    LET hit(record) == Matches(record, predicate)
    IN  SelectSeq(rows, hit)

\* the records overridden by the set fields
Overridden(rows, set_fields) == [i \in 1..Len(rows) |-> DictUpdate(rows[i], set_fields)]

\* C11 (as stated): for all rows, set-clauses and where-predicates, a
\* set-clause that assigns the where column included, the records that
\* matched where before the update are the records select returns from the
\* updated rows with the same where, carrying the set values.
C11_SelectAfterUpdateReturnsTheMatched ==
    Continued("update") =>
        last.then = Return(Overridden(Matching(last.table_data, last.where_clause),
                                      last.set_clause))

\* whether the set-clause leaves every column of the predicate with the value
\* the predicate asks for, and the predicate asks for no null
SetKeepsPredicate(set_fields, predicate) ==
    /\ \A key \in DOMAIN predicate : predicate[key] # NoneV
    /\ \A key \in DOMAIN set_fields \cap DOMAIN predicate :
          PyEq(set_fields[key], predicate[key])

\* C11 (amended): when the set-clause assigns no column of the where-predicate
\* a value other than the predicate's, select with the same where returns from
\* the updated rows exactly the records that matched before the update, in
\* order, overridden by the set fields.
C11_SelectAfterUpdateWhenSetKeepsWhere ==
    (Continued("update") /\ SetKeepsPredicate(last.set_clause, last.where_clause)) =>
        last.then = Return(Overridden(Matching(last.table_data, last.where_clause),
                                      last.set_clause))

\* update set n = 2 where ID = 1 on two records with n = 1: the select after it
\* returns the first record alone, with n = 2
C11_Witness ==
    /\ Continued("update")
    /\ last.set_clause = (C_n :> IntV(2)) /\ last.where_clause = (S_ID :> IntV(1))
    /\ Len(last.table_data) = 2
    /\ last.table_data[1] = (S_ID :> IntV(1)) @@ (C_n :> IntV(1))
    /\ last.table_data[2] = (S_ID :> IntV(2)) @@ (C_n :> IntV(1))
    /\ last.then = Return(<<(S_ID :> IntV(1)) @@ (C_n :> IntV(2))>>)

\* the records of rows that do not match the predicate (the spec's match), in order
NotMatching(rows, predicate) ==
    LET keep(record) == ~Matches(record, predicate)
    IN  SelectSeq(rows, keep)

\* C12: a confirmed delete keeps exactly the records that do not match, in
\* order, so with a predicate matching no record it returns its input, without
\* error; and delete(delete(rows, p), p) equals delete(rows, p).
C12_DeleteKeepsTheOthersAndIsIdempotent ==
    (last.fn = "delete" /\ confirmed(last.response)) =>
        /\ pc # "call" =>
              last.result = Return(NotMatching(last.table_data, last.where_clause))
        /\ pc = "then" => last.then = last.result

\* C13: a successful insert appends to a copy of existingRows: the collection
\* passed in has the same length and contents after the call as before it.
C13_InsertLeavesExistingRowsAlone ==
    (Returned("insert") /\ last.result.exc = "none" /\ last.table_data # NoList) =>
        last.result.arg = last.table_data

====
